---- MODULE Spec2Model ----
(***************************************************************************)
(* The HTTP request helpers of asaniczka: get_request, async_get_request,  *)
(* post_request and async_post_request of asaniczka/main.py, and the       *)
(* package-level get_request of asaniczka/__init__.py.                     *)
(*                                                                         *)
(* A call is a small state machine over the position in the retry loop.    *)
(* The transport is the environment: each attempt either raises or         *)
(* answers with a status and a body.  The answers are recorded in          *)
(* `script`, so that two calls run against the same deterministic          *)
(* transport see the same answer at the same attempt.                      *)
(***************************************************************************)
EXTENDS Integers, Sequences, FiniteSets, TLC

VARIABLES cfg, pc, retries, attempts, sleeps, dropped_sleeps, response,
          content, result, logs, prints, script,
          headers, caller_headers, sent

\* the state of the request helpers
reqvars == <<cfg, pc, retries, attempts, sleeps, dropped_sleeps, response,
             content, result, logs, prints, script,
             headers, caller_headers, sent>>

\* the SupabaseManager of asaniczka/db_tools.py, the thread that calls its
\* methods, and the background backup thread
VARIABLES db_backup_loop, is_db_backup_running, sb, sb_before,
          main_pc, stop_args, stop_result, calls_made,
          bk_pc, bg_pc, time_to_sleep, bg_sleeps, backup_log

dbvars == <<db_backup_loop, is_db_backup_running, sb, sb_before,
            main_pc, stop_args, stop_result, calls_made,
            bk_pc, bg_pc, time_to_sleep, bg_sleeps, backup_log>>

\* the last call of a psql helper of asaniczka/db_tools.py, the last file
\* written by save_file, and the calls of validate_proxies and
\* check_ratelimit of asaniczka/scrape_helper.py
VARIABLES psql, saved, vp, rl

toolvars == <<psql, saved, vp, rl>>

vars == <<reqvars, dbvars, toolvars>>

(* ---------------------------- bounds ----------------------------------- *)

\* largest retry_count a caller passes to post_request in the model
MaxRetryCount == 3

\* largest number of start_supabase_instance and stop_supabase_instance
\* calls the caller makes on one manager
MaxManagerCalls == 2

\* largest number of backups the background thread is followed through
MaxBackups == 2

\* largest number of items of a list, set or dict handed to save_file
MaxItems == 2

\* the requests of the burst of check_ratelimit that are followed, of the
\* 1000 it submits
MaxBurst == 3

\* response bodies the transport can answer with
Bodies == {"a", "b", ""}

\* status codes the transport can answer with: success, a 1xx, a 2xx that
\* is not 200, a 3xx, a 4xx, and the three kinds of retryable status
Statuses == {100, 200, 201, 301, 404, 420, 429, 500}

(* ------------------------- program constants --------------------------- *)

\* `while retries < 5` / `if retries >= 5`
MaxRetries == 5

Calls == {1, 2}

Variants == {"get_request", "async_get_request", "post_request",
             "async_post_request", "pkg_get_request"}

None == "None"

\* the local `response` before its first assignment
Unbound == [status |-> -1, text |-> "unbound"]

\* what the transport does at one attempt: it raises, or it answers
TransportException == [status |-> 0, text |-> "exception"]

\* the body of an answer that is not a 200 only reaches log and error text,
\* which the model does not keep: such answers all carry the first body
Responses ==
    {r \in [status : Statuses, text : Bodies] : r.status = 200 \/ r.text = "a"}

Outcomes == Responses \cup {TransportException}

Running == [kind |-> "running", value |-> None, status |-> -1, site |-> "none"]

Idle == [kind |-> "idle", value |-> None, status |-> -1, site |-> "none"]

Returned(v) == [kind |-> "return", value |-> v, status |-> -1, site |-> "none"]

Raised(type, st, where) ==
    [kind |-> "raise", value |-> type, status |-> st, site |-> where]

(* ------------------------- classification ------------------------------ *)

\* a classification that retries every 4xx and 5xx
IsRetryable_from400(status) == status >= 400

\* response.status_code == 420 or == 429 or >= 500
IsRetryable(status) == status = 420 \/ status = 429 \/ status >= 500

IsOk(status) == status = 200

\* a loop that admits one attempt too many in every variant
LoopContinues_inclusive(c) ==
    IF cfg[c].fn = "post_request"
    THEN retries[c] <= cfg[c].retry_count
    ELSE retries[c] <= MaxRetries

\* a retry counter kept in one place for all calls in flight
LoopContinues_shared(c) ==
    IF cfg[c].fn = "post_request"
    THEN retries[1] + retries[2] <= cfg[c].retry_count
    ELSE retries[1] + retries[2] < MaxRetries

\* the attempt budget of the while loop of each variant
LoopContinues(c) ==
    IF cfg[c].fn = "post_request"
    THEN retries[c] <= cfg[c].retry_count
    ELSE retries[c] < MaxRetries

\* an exhaustion test that fires one retry early
Exhausted_early(c) ==
    IF cfg[c].fn = "post_request"
    THEN retries[c] >= cfg[c].retry_count
    ELSE retries[c] >= MaxRetries - 1

\* the test after the loop that decides the call is exhausted
Exhausted(c) ==
    IF cfg[c].fn = "post_request"
    THEN retries[c] > cfg[c].retry_count
    ELSE retries[c] >= MaxRetries

\* httpx's Response.text is a str property: `await response.text()` in
\* async_get_request calls a str and raises TypeError
TextIsCalled(c) == cfg[c].fn = "async_get_request"


(* ----------------------- headers and transport ------------------------- *)

\* `headers=None`, the default of the parameter
NoHeaders == "None"

\* an empty mapping supplied by the caller
EmptyHeaders == "{}"

\* a non-empty mapping supplied by the caller
CallerHeaders == "caller headers"

\* the User-Agent mapping the helpers build
DefaultHeaders ==
    "User-Agent: Mozilla/5.0 (X11; Ubuntu; Linux x86_64; rv:109.0) Gecko/20100101 Firefox/119.0"

\* no transport call made yet
NotSent == [by |-> "none", proxies |-> FALSE, headers |-> NoHeaders]

\* a binding that replaces whatever the caller supplied
BindHeaders_default(h) == [local |-> DefaultHeaders, caller |-> h]

\* `if not headers: headers = {...}`: the local name is rebound when it is
\* None or empty, the mapping of the caller is not written
BindHeaders(h) ==
    [local |-> IF h \in {NoHeaders, EmptyHeaders} THEN DefaultHeaders ELSE h,
     caller |-> h]

\* the callable an attempt of call c goes through
Transport(c) ==
    IF cfg[c].fn \in {"get_request", "pkg_get_request"}
    THEN IF cfg[c].proxy
         THEN [by |-> "requests.get", proxies |-> TRUE]
         ELSE IF cfg[c].session
         THEN [by |-> "session.get", proxies |-> FALSE]
         ELSE [by |-> "requests.get", proxies |-> FALSE]
    ELSE IF cfg[c].fn = "post_request"
    THEN [by |-> "requests.post", proxies |-> cfg[c].proxy]
    ELSE IF cfg[c].fn = "async_get_request"
    THEN [by |-> "httpx.AsyncClient.get", proxies |-> cfg[c].proxy]
    ELSE [by |-> "httpx.AsyncClient.post", proxies |-> cfg[c].proxy]

\* the head of the loop body and the transport call of one attempt
Issue(c) ==
    /\ headers' = [headers EXCEPT ![c] = BindHeaders(@).local]
    /\ caller_headers' =
            [caller_headers EXCEPT ![c] = BindHeaders(@).caller]
    /\ sent' = [sent EXCEPT ![c] =
                  [by |-> Transport(c).by, proxies |-> Transport(c).proxies,
                   headers |-> BindHeaders(headers[c]).local]]

(* ------------------------- manager constants --------------------------- *)

\* the thread that calls the methods of the manager, and the thread that
\* start_supabase_instance starts on run_backup_every_hour
Threads == {"main", "bg"}

\* `time_to_sleep = 30 * 60`
FirstBackupDelay == 30 * 60

\* `time_to_sleep = 60 * 60`
BackupPeriod == 60 * 60

\* `do_sleep(10)`, `time_to_sleep -= 10`
SleepStep == 10

\* the four endpoint fields of a manager, all None
NoUrls ==
    [api_url |-> None, db_url |-> None, studio_url |-> None,
     anon_key |-> None]

\* the four fields as start_supabase_instance reads them from the output
\* of `supabase start`
StartedUrls ==
    [api_url |-> "API URL", db_url |-> "DB URL",
     studio_url |-> "Studio URL", anon_key |-> "anon key"]

\* no stop_supabase_instance call in progress
NoStop ==
    [no_log |-> FALSE, debug |-> FALSE, backup |-> FALSE,
     from |-> "none", waited |-> FALSE, launched |-> FALSE]

(* --------------------------- psql helpers ------------------------------ *)

\* the helpers of asaniczka/db_tools.py that run one psql command
PsqlHelpers ==
    {"get_table_names_psql", "get_column_details_psql",
     "run_db_command_psql"}

\* the db_url arguments a caller passes: the default, an empty string, a URL
UrlArguments == {None, "", "argument DB URL"}

\* the logger arguments a caller passes, and the logger of the project a
\* manager was built on: a logger or None
LoggerArguments == {None, "argument logger"}

ProjectLoggers == {None, "project logger"}

\* `if not x:` for a string or None
Falsy(x) == x \in {None, ""}

\* no psql helper called yet
NoPsql ==
    [fn |-> "none", manager |-> FALSE, mgr_db_url |-> None,
     mgr_logger |-> None, arg_db_url |-> None, arg_logger |-> None,
     db_url |-> None, logger |-> None,
     launched |-> 0, logged_by |-> None, result |-> "none"]

\* a binding that takes from the manager only what the caller left out
PsqlBind_fallback(m, mgr_url, mgr_logger, u, l) ==
    IF m
    THEN [db_url |-> IF Falsy(u) THEN mgr_url ELSE u,
          logger |-> IF l = None THEN mgr_logger ELSE l]
    ELSE [db_url |-> u, logger |-> l]

\* `if sb_manager: logger = sb_manager.logger; db_url =
\* sb_manager.sb_db_url`: a manager object is always true
PsqlBind(m, mgr_url, mgr_logger, u, l) ==
    IF m
    THEN [db_url |-> mgr_url, logger |-> mgr_logger]
    ELSE [db_url |-> u, logger |-> l]

\* the rest of a helper after the binding b: the test of db_url,
\* check_psql_installation (one subprocess), psql_subprocess_executor (a
\* second one) and the test of its return code
PsqlRun(b, installed, returncode) ==
    IF Falsy(b.db_url)
    THEN [launched |-> 0, logged_by |-> b.logger,
          result |-> "AttributeError"]
    ELSE IF ~installed
    THEN [launched |-> 1, logged_by |-> b.logger, result |-> "RuntimeError"]
    ELSE IF returncode # 0
    THEN [launched |-> 2, logged_by |-> b.logger, result |-> "RuntimeError"]
    ELSE [launched |-> 2, logged_by |-> None, result |-> "return"]

(* ------------------------------ save_file ------------------------------ *)

\* the items of the lists, sets and dicts handed to save_file: strings and
\* an integer
Items ==
    {[type |-> "str", str |-> "x", int |-> 0],
     [type |-> "str", str |-> "y", int |-> 0],
     [type |-> "int", str |-> "", int |-> 1]}

\* the sequences of at most n items
SeqsUpTo(n) == UNION {[1..k -> Items] : k \in 0..n}

\* the orders in which the items of a set may be iterated
Orders(S) ==
    {q \in SeqsUpTo(Cardinality(S)) :
        /\ Len(q) = Cardinality(S)
        /\ {q[i] : i \in 1..Len(q)} = S}

\* the extionsion arguments a caller passes
Extensions == {None, "", "json", ".json", "txt"}

\* `str(item)`
Str(item) == IF item.type = "int" THEN ToString(item.int) ELSE item.str

\* `json.dumps(item)`: a string is quoted
JsonItem(item) ==
    IF item.type = "int" THEN ToString(item.int)
                         ELSE "\"" \o item.str \o "\""

\* `sep.join(...)` over the items q, each converted by str (plain) or by
\* json.dumps
RECURSIVE Join(_, _, _)
Join(q, sep, plain) ==
    IF Len(q) = 0 THEN ""
    ELSE LET head == IF plain THEN Str(q[1]) ELSE JsonItem(q[1])
         IN  IF Len(q) = 1 THEN head
             ELSE head \o sep \o Join(Tail(q), sep, plain)

\* `json.dumps(content)` for a list
JsonDumps(q) == "[" \o Join(q, ", ", FALSE) \o "]"

\* `json.dumps(content)` for a dict with the keys "k1", "k2", ...
RECURSIVE JsonPairs(_, _)
JsonPairs(q, i) ==
    IF Len(q) = 0 THEN ""
    ELSE LET head == "\"k" \o ToString(i) \o "\": " \o JsonItem(q[1])
         IN  IF Len(q) = 1 THEN head
             ELSE head \o ", " \o JsonPairs(Tail(q), i + 1)

JsonDumpsDict(q) == "{" \o JsonPairs(q, 1) \o "}"

\* `extionsion != "json" or extionsion != ".json"`
IsNotJson(e) == e # "json" \/ e # ".json"

\* the body of save_file: the text written and the extension of the file
\* name, for content of kind `kind` with items q and extionsion e
SaveFileWrites(kind, q, text, e) ==
    IF kind \in {"list", "set"}
    THEN IF IsNotJson(e)
         THEN [written |-> Join(q, "\n", TRUE),
               suffix |-> IF Falsy(e) THEN "txt" ELSE e]
         ELSE [written |-> JsonDumps(q), suffix |-> e]
    ELSE IF kind = "dict"
    THEN [written |-> JsonDumpsDict(q),
          suffix |-> IF Falsy(e) THEN "json" ELSE e]
    ELSE [written |-> text, suffix |-> IF Falsy(e) THEN "txt" ELSE e]

\* no file written yet
NoFile ==
    [fn |-> "none", kind |-> "none", items |-> << >>, text |-> "",
     extionsion |-> None, written |-> "", suffix |-> None]

(* --------------------------- validate_proxies -------------------------- *)

\* the proxies handed to validate_proxies
ProxyIds == {"p", "q"}

\* the lists of proxies validate_proxies is called with: one dummy request
\* per proxy, each a call of get_request
ProxyLists == UNION {[1..n -> ProxyIds] : n \in 0..Cardinality(Calls)}

\* asaniczka.get_request("https://api.ipify.org", silence_exceptions=True,
\* timeout=5, proxy=proxy.to_basic_auth())
DummyRequest ==
    [fn |-> "get_request", silence |-> TRUE, logger |-> FALSE,
     retry_count |-> MaxRetries,
     proxy |-> TRUE, session |-> FALSE, headers |-> NoHeaders]

\* validate_proxies not called
NoValidation ==
    [pc |-> "none", proxies |-> << >>, submitted |-> 0, collected |-> {},
     working_proxies |-> << >>, result |-> "none"]

(* ---------------------------- check_ratelimit -------------------------- *)

\* the thread that calls check_ratelimit (0) and the threads of the pool,
\* one per request of the burst that is followed
Senders == 0..MaxBurst

\* what the endpoint answers to send_request: success, a rate limit, a
\* server error
BurstStatuses == {200, 429, 500}

\* no status: the request was not answered
NoStatus == -1

\* `timer.lap(full_decimals=True)`: some positive number of seconds
Laps == {1, 2}

\* `burst_data = {"total_requests": 0, "requests_till_429": 0,
\* "time_till_429": 0}`
NoBurstData ==
    [total_requests |-> 0, requests_till_429 |-> 0, time_till_429 |-> 0]

\* a thread that is not in send_request
NoSender == [pc |-> "none", status |-> NoStatus]

\* check_ratelimit not called
NoRatelimit ==
    [pc |-> "none", check |-> TRUE, is_get |-> TRUE, headers |-> NoHeaders,
     burst_data |-> NoBurstData, threads |-> 0, requests |-> 0,
     by |-> "none", w |-> [i \in Senders |-> NoSender],
     result |-> [kind |-> "none", status |-> NoStatus]]

(* ------------------------------ state ---------------------------------- *)

NoConfig ==
    [fn |-> "get_request", silence |-> FALSE, logger |-> FALSE,
     retry_count |-> MaxRetries,
     proxy |-> FALSE, session |-> FALSE, headers |-> NoHeaders]

\* every call the helpers accept: session is a parameter of get_request
\* only, headers is not a parameter of the package-level get_request
AllConfigs ==
    {k \in [fn : Variants, silence : BOOLEAN, logger : BOOLEAN,
            retry_count : (1..MaxRetryCount) \cup {MaxRetries},
            proxy : BOOLEAN, session : BOOLEAN,
            headers : {NoHeaders, EmptyHeaders, CallerHeaders}] :
        /\ (k.fn # "post_request") => (k.retry_count = MaxRetries)
        /\ k.session => (k.fn \in {"get_request", "pkg_get_request"})
        /\ (k.fn = "pkg_get_request") => (k.headers = NoHeaders)}

\* the calls that leave proxy, session and headers at their defaults
Configs ==
    {k \in AllConfigs :
        ~k.proxy /\ ~k.session /\ k.headers = NoHeaders}

Init ==
    /\ cfg = [c \in Calls |-> NoConfig]
    /\ pc = [c \in Calls |-> "idle"]
    /\ retries = [c \in Calls |-> 0]
    /\ attempts = [c \in Calls |-> 0]
    /\ sleeps = [c \in Calls |-> 0]
    /\ dropped_sleeps = [c \in Calls |-> 0]
    /\ response = [c \in Calls |-> Unbound]
    /\ content = [c \in Calls |-> None]
    /\ result = [c \in Calls |-> Idle]
    /\ logs = [c \in Calls |-> 0]
    /\ prints = [c \in Calls |-> 0]
    /\ script = << >>
    /\ headers = [c \in Calls |-> NoHeaders]
    /\ caller_headers = [c \in Calls |-> NoHeaders]
    /\ sent = [c \in Calls |-> NotSent]
    /\ db_backup_loop = FALSE
    /\ is_db_backup_running = FALSE
    /\ sb = NoUrls
    /\ sb_before = NoUrls
    /\ main_pc = "unbuilt"
    /\ stop_args = NoStop
    /\ stop_result = "none"
    /\ calls_made = 0
    /\ bk_pc = [t \in Threads |-> "none"]
    /\ bg_pc = "none"
    /\ time_to_sleep = 0
    /\ bg_sleeps = 0
    /\ backup_log = << >>
    /\ psql = NoPsql
    /\ saved = NoFile
    /\ vp = NoValidation
    /\ rl = NoRatelimit

\* entry of a request helper: `content = None`, `retries = 0`
Entry(c, k) ==
    /\ cfg' = [cfg EXCEPT ![c] = k]
    /\ pc' = [pc EXCEPT ![c] = "loop"]
    /\ result' = [result EXCEPT ![c] = Running]
    /\ headers' = [headers EXCEPT ![c] = k.headers]
    /\ caller_headers' = [caller_headers EXCEPT ![c] = k.headers]
    /\ UNCHANGED <<retries, attempts, sleeps, dropped_sleeps, response,
                   content, logs, prints, script, sent>>

\* a request helper called by the program under test itself
Enter(c, k) ==
    /\ Entry(c, k)
    /\ UNCHANGED <<dbvars, toolvars>>

\* one call of one helper, with the default transport arguments
Call(c) ==
    /\ \A d \in Calls : pc[d] = "idle"
    /\ \E k \in Configs : Enter(c, k)

\* the dummy requests of validate_proxies go each through the proxy under
\* test: no two of them share a transport
OwnTransport(c) == vp.pc # "none"

\* the answer of the transport at the next attempt of call c: the one the
\* transport already gave at that attempt, or a new one
Answers(c, o) ==
    IF OwnTransport(c)
    THEN script' = script
    ELSE IF attempts[c] + 1 <= Len(script)
    THEN /\ o = script[attempts[c] + 1]
         /\ script' = script
    ELSE script' = Append(script, o)

\* an except branch that pauses like the retryable branch does
HandlerContinuesAt_sleep(c) == "sleep"

\* the except branch ends with `retries += 1; continue`: back to the
\* while test, without a sleep
HandlerContinuesAt(c) == "loop"

\* the transport call raises: the except branch of the loop
TransportRaises(c) ==
    /\ pc[c] = "loop"
    /\ LoopContinues(c)
    /\ Issue(c)
    /\ Answers(c, TransportException)
    /\ attempts' = [attempts EXCEPT ![c] = @ + 1]
    /\ IF cfg[c].fn = "pkg_get_request" /\ ~cfg[c].logger
       THEN \* asaniczka/__init__.py: logger.warning without a test of
            \* logger, on None, inside the handler
            /\ pc' = [pc EXCEPT ![c] = "done"]
            /\ result' = [result EXCEPT
                    ![c] = Raised("AttributeError", -1, "handler")]
            /\ UNCHANGED <<retries, logs, prints>>
       ELSE /\ logs' = [logs EXCEPT
                    ![c] = IF cfg[c].logger THEN @ + 1 ELSE @]
            /\ prints' = [prints EXCEPT
                    ![c] = IF cfg[c].logger THEN @ ELSE @ + 1]
            /\ IF HandlerContinuesAt(c) = "loop"
               THEN /\ retries' = [retries EXCEPT ![c] = @ + 1]
                    /\ UNCHANGED pc
               ELSE /\ pc' = [pc EXCEPT ![c] = HandlerContinuesAt(c)]
                    /\ UNCHANGED retries
            /\ UNCHANGED result
    /\ UNCHANGED <<cfg, sleeps, dropped_sleeps, response, content>>
    /\ UNCHANGED <<dbvars, toolvars>>

\* the transport call answers: the rest of the loop body up to the sleep
TransportAnswers(c) ==
    /\ pc[c] = "loop"
    /\ LoopContinues(c)
    /\ Issue(c)
    /\ \E o \in Responses :
        /\ Answers(c, o)
        /\ attempts' = [attempts EXCEPT ![c] = @ + 1]
        /\ response' = [response EXCEPT ![c] = o]
        /\ IF IsOk(o.status)
           THEN IF cfg[c].fn = "async_get_request"
                THEN \* `return content`
                     /\ pc' = [pc EXCEPT ![c] = "done"]
                     /\ result' = [result EXCEPT ![c] = Returned(o.text)]
                     /\ UNCHANGED <<content, logs>>
                ELSE \* `content = response.text; break`
                     /\ content' = [content EXCEPT ![c] = o.text]
                     /\ pc' = [pc EXCEPT ![c] = "exit"]
                     /\ UNCHANGED <<result, logs>>
           ELSE IF cfg[c].logger /\ TextIsCalled(c)
           THEN \* the log statement evaluates `await response.text()`
                /\ pc' = [pc EXCEPT ![c] = "done"]
                /\ result' = [result EXCEPT
                        ![c] = Raised("TypeError", -1, "log")]
                /\ UNCHANGED <<content, logs>>
           ELSE /\ logs' = [logs EXCEPT
                        ![c] = IF cfg[c].logger THEN @ + 1 ELSE @]
                /\ UNCHANGED content
                /\ IF IsRetryable(o.status)
                   THEN /\ pc' = [pc EXCEPT ![c] = "sleep"]
                        /\ UNCHANGED result
                   ELSE IF ~cfg[c].silence
                   THEN /\ pc' = [pc EXCEPT ![c] = "done"]
                        /\ result' = [result EXCEPT ![c] =
                                IF TextIsCalled(c)
                                THEN Raised("TypeError", -1, "fatal")
                                ELSE Raised("RuntimeError", o.status, "fatal")]
                   ELSE \* `break`
                        /\ pc' = [pc EXCEPT ![c] = "exit"]
                        /\ UNCHANGED result
    /\ UNCHANGED <<cfg, retries, sleeps, dropped_sleeps, prints>>
    /\ UNCHANGED <<dbvars, toolvars>>

\* the retryable branch: sleep, `retries += 1`, `continue`
Sleep(c) ==
    /\ pc[c] = "sleep"
    /\ IF cfg[c].fn = "async_post_request"
       THEN \* `asyncio.sleep(retry_sleep_time)` without await: the
            \* coroutine is created and dropped, nothing suspends
            /\ dropped_sleeps' = [dropped_sleeps EXCEPT ![c] = @ + 1]
            /\ UNCHANGED sleeps
       ELSE /\ sleeps' = [sleeps EXCEPT ![c] = @ + 1]
            /\ UNCHANGED dropped_sleeps
    /\ retries' = [retries EXCEPT ![c] = @ + 1]
    /\ pc' = [pc EXCEPT ![c] = "loop"]
    /\ UNCHANGED <<cfg, attempts, response, content, result, logs, prints,
                   script, headers, caller_headers, sent>>
    /\ UNCHANGED <<dbvars, toolvars>>

\* the while condition is false
LoopExit(c) ==
    /\ pc[c] = "loop"
    /\ ~LoopContinues(c)
    /\ pc' = [pc EXCEPT ![c] = "exit"]
    /\ UNCHANGED <<cfg, retries, attempts, sleeps, dropped_sleeps, response,
                   content, result, logs, prints, script,
                   headers, caller_headers, sent>>
    /\ UNCHANGED <<dbvars, toolvars>>

\* code after the loop that raises on exhaustion whatever silence_exceptions
AfterLoopResult_loud(c) ==
    IF Exhausted(c)
    THEN IF response[c] = Unbound
         THEN Raised("UnboundLocalError", -1, "exhausted")
         ELSE Raised("RuntimeError", response[c].status, "exhausted")
    ELSE Returned(content[c])

\* code after the loop that forgets the body, as `return None` would
AfterLoopResult_nobody(c) ==
    IF Exhausted(c) /\ ~cfg[c].silence
    THEN IF response[c] = Unbound
         THEN Raised("UnboundLocalError", -1, "exhausted")
         ELSE Raised("RuntimeError", response[c].status, "exhausted")
    ELSE Returned(None)

\* what the code after the loop ends the call with
AfterLoopResult(c) ==
    IF Exhausted(c) /\ ~cfg[c].silence
    THEN IF response[c] = Unbound
         THEN \* the message reads response.status_code of an unset local
              Raised("UnboundLocalError", -1, "exhausted")
         ELSE IF TextIsCalled(c)
         THEN Raised("TypeError", -1, "exhausted")
         ELSE Raised("RuntimeError", response[c].status, "exhausted")
    ELSE IF cfg[c].fn = "async_get_request"
         THEN Returned(None)
         ELSE Returned(content[c])

\* the code after the loop: the exhaustion test and the return
AfterLoop(c) ==
    /\ pc[c] = "exit"
    /\ pc' = [pc EXCEPT ![c] = "done"]
    /\ result' = [result EXCEPT ![c] = AfterLoopResult(c)]
    /\ UNCHANGED <<cfg, retries, attempts, sleeps, dropped_sleeps, response,
                   content, logs, prints, script,
                   headers, caller_headers, sent>>
    /\ UNCHANGED <<dbvars, toolvars>>

Step(c) ==
    \/ TransportRaises(c)
    \/ TransportAnswers(c)
    \/ Sleep(c)
    \/ LoopExit(c)
    \/ AfterLoop(c)

Next == Call(1) \/ Step(1)

Spec == Init /\ [][Next]_vars

TypeOK ==
    /\ cfg \in [Calls -> AllConfigs]
    /\ pc \in [Calls -> {"idle", "loop", "sleep", "exit", "done"}]
    /\ retries \in [Calls -> 0..(MaxRetries + 1)]
    /\ attempts \in [Calls -> 0..(MaxRetries + 1)]
    /\ sleeps \in [Calls -> 0..(MaxRetries + 1)]
    /\ dropped_sleeps \in [Calls -> 0..MaxRetries]
    /\ response \in [Calls -> Responses \cup {Unbound}]
    /\ content \in [Calls -> Bodies \cup {None}]
    /\ logs \in [Calls -> 0..(MaxRetries + 1)]
    /\ prints \in [Calls -> 0..(MaxRetries + 1)]
    /\ script \in Seq(Outcomes)
    /\ Len(script) <= MaxRetries + 1
    /\ headers \in [Calls -> {NoHeaders, EmptyHeaders, CallerHeaders,
                               DefaultHeaders}]
    /\ caller_headers \in [Calls -> {NoHeaders, EmptyHeaders, CallerHeaders}]
    /\ sent[1].headers \in {NoHeaders, CallerHeaders, DefaultHeaders}

\* every transport call and every sleep returns: a call that can take a
\* step takes it
FairSpec == Spec /\ WF_vars(Step(1))

(* ------------- one call with any transport arguments ------------------- *)

\* one call of one helper of asaniczka/main.py with any proxy, session and
\* headers arguments
CallAnyConfig(c) ==
    /\ \A d \in Calls : pc[d] = "idle"
    /\ \E k \in AllConfigs :
        /\ k.fn # "pkg_get_request"
        /\ Enter(c, k)

NextTransport == CallAnyConfig(1) \/ Step(1)

SpecTransport == Init /\ [][NextTransport]_vars

(* ----------------- two calls against one transport --------------------- *)

\* get_request called twice with the same arguments but the logger, which
\* call 1 leaves at None and call 2 supplies
CallWithAndWithoutLogger ==
    /\ \A d \in Calls : pc[d] = "idle"
    /\ \E f \in {"get_request", "pkg_get_request"}, s \in BOOLEAN :
        cfg' = [c \in Calls |->
                  [fn |-> f, silence |-> s, logger |-> (c = 2),
                   retry_count |-> MaxRetries,
                   proxy |-> FALSE, session |-> FALSE,
                   headers |-> NoHeaders]]
    /\ pc' = [c \in Calls |-> "loop"]
    /\ result' = [c \in Calls |-> Running]
    /\ UNCHANGED <<retries, attempts, sleeps, dropped_sleeps, response,
                   content, logs, prints, script,
                   headers, caller_headers, sent>>
    /\ UNCHANGED <<dbvars, toolvars>>

NextLogger == CallWithAndWithoutLogger \/ Step(1) \/ Step(2)

SpecLogger == Init /\ [][NextLogger]_vars

\* get_request (call 1) and async_get_request (call 2) called with the
\* same arguments
CallSyncAndAsync ==
    /\ \A d \in Calls : pc[d] = "idle"
    /\ \E s \in BOOLEAN, l \in BOOLEAN :
        cfg' = [c \in Calls |->
                  [fn |-> IF c = 1 THEN "get_request"
                                   ELSE "async_get_request",
                   silence |-> s, logger |-> l,
                   retry_count |-> MaxRetries,
                   proxy |-> FALSE, session |-> FALSE,
                   headers |-> NoHeaders]]
    /\ pc' = [c \in Calls |-> "loop"]
    /\ result' = [c \in Calls |-> Running]
    /\ UNCHANGED <<retries, attempts, sleeps, dropped_sleeps, response,
                   content, logs, prints, script,
                   headers, caller_headers, sent>>
    /\ UNCHANGED <<dbvars, toolvars>>

NextAsync == CallSyncAndAsync \/ Step(1) \/ Step(2)

SpecAsync == Init /\ [][NextAsync]_vars

(* --------------------- two calls in any order -------------------------- *)

\* the calls the two-call runs are made of: the four helpers of
\* asaniczka/main.py, silenced or not
PairConfigs ==
    {k \in Configs :
        /\ k.fn # "pkg_get_request"
        /\ ~k.logger
        /\ (k.fn = "post_request") => (k.retry_count = MaxRetryCount)}

\* two calls made by two threads or tasks, or one after the other: twice
\* the same call, or a call and a get_request
CallTwo ==
    /\ \A d \in Calls : pc[d] = "idle"
    /\ \E k1 \in PairConfigs, k2 \in PairConfigs :
        /\ k2.silence = k1.silence
        /\ k2.fn \in {k1.fn, "get_request"}
        /\ (k2.fn = k1.fn) => (k2 = k1)
        /\ cfg' = [c \in Calls |-> IF c = 1 THEN k1 ELSE k2]
    /\ pc' = [c \in Calls |-> "loop"]
    /\ result' = [c \in Calls |-> Running]
    /\ UNCHANGED <<retries, attempts, sleeps, dropped_sleeps, response,
                   content, logs, prints, script,
                   headers, caller_headers, sent>>
    /\ UNCHANGED <<dbvars, toolvars>>

NextTwo == CallTwo \/ Step(1) \/ Step(2)

SpecTwo == Init /\ [][NextTwo]_vars

\* A call run on its own, as a function of its arguments k and of the
\* answers s of the transport: the loop of the helper from the state after
\* i attempts, r retries and sl sleeps, with last response resp.
RECURSIVE RunAlone(_, _, _, _, _, _)
RunAlone(k, s, i, r, sl, resp) ==
    LET budget == IF k.fn = "post_request" THEN k.retry_count + 1
                                           ELSE MaxRetries
        end(res, n) == [result |-> res, attempts |-> n, sleeps |-> sl]
    IN  IF r >= budget
        THEN end(IF k.silence THEN Returned(None)
                 ELSE IF resp = Unbound
                 THEN Raised("UnboundLocalError", -1, "exhausted")
                 ELSE IF k.fn = "async_get_request"
                 THEN Raised("TypeError", -1, "exhausted")
                 ELSE Raised("RuntimeError", resp.status, "exhausted"), i)
        ELSE IF i + 1 > Len(s)
        THEN end(Running, i)
        ELSE LET o == s[i + 1] IN
             IF o = TransportException
             THEN IF k.fn = "pkg_get_request" /\ ~k.logger
                  THEN end(Raised("AttributeError", -1, "handler"), i + 1)
                  ELSE RunAlone(k, s, i + 1, r + 1, sl, resp)
             ELSE IF o.status = 200
             THEN end(Returned(o.text), i + 1)
             ELSE IF k.logger /\ k.fn = "async_get_request"
             THEN end(Raised("TypeError", -1, "log"), i + 1)
             ELSE IF o.status = 420 \/ o.status = 429 \/ o.status >= 500
             THEN RunAlone(k, s, i + 1, r + 1,
                           IF k.fn = "async_post_request" THEN sl ELSE sl + 1,
                           o)
             ELSE IF k.silence
             THEN end(Returned(None), i + 1)
             ELSE IF k.fn = "async_get_request"
             THEN end(Raised("TypeError", -1, "fatal"), i + 1)
             ELSE end(Raised("RuntimeError", o.status, "fatal"), i + 1)

(* ---------------------- the Supabase manager --------------------------- *)

\* SupabaseManager(project, sb_db_url=...): the constructor
NewManager ==
    /\ main_pc = "unbuilt"
    /\ \E u \in {None, "given DB URL"} :
        sb' = [NoUrls EXCEPT !.db_url = u]
    /\ db_backup_loop' = FALSE
    /\ is_db_backup_running' = FALSE
    /\ main_pc' = "idle"
    /\ UNCHANGED <<sb_before, stop_args, stop_result, calls_made, bk_pc,
                   bg_pc, time_to_sleep, bg_sleeps, backup_log>>
    /\ UNCHANGED <<reqvars, toolvars>>

\* start_supabase_instance(debug), with the config file in place: it
\* begins with stop_supabase_instance(no_log=True, debug=debug,
\* backup=False).  The model follows one background thread at a time.
StartCall ==
    /\ main_pc = "idle"
    /\ calls_made < MaxManagerCalls
    /\ bg_pc \in {"none", "ended", "died"}
    /\ \E d \in BOOLEAN :
        stop_args' = [no_log |-> TRUE, debug |-> d, backup |-> FALSE,
                      from |-> "start", waited |-> FALSE,
                      launched |-> FALSE]
    /\ main_pc' = "stop_entry"
    /\ stop_result' = "none"
    /\ calls_made' = calls_made + 1
    /\ UNCHANGED <<db_backup_loop, is_db_backup_running, sb, sb_before,
                   bk_pc, bg_pc, time_to_sleep, bg_sleeps, backup_log>>
    /\ UNCHANGED <<reqvars, toolvars>>

\* stop_supabase_instance(no_log, debug, backup) called by the caller
StopCall ==
    /\ main_pc = "idle"
    /\ calls_made < MaxManagerCalls
    /\ \E d \in BOOLEAN, b \in BOOLEAN :
        stop_args' = [no_log |-> FALSE, debug |-> d, backup |-> b,
                      from |-> "caller", waited |-> FALSE,
                      launched |-> FALSE]
    /\ main_pc' = "stop_entry"
    /\ stop_result' = "none"
    /\ calls_made' = calls_made + 1
    /\ UNCHANGED <<db_backup_loop, is_db_backup_running, sb, sb_before,
                   bk_pc, bg_pc, time_to_sleep, bg_sleeps, backup_log>>
    /\ UNCHANGED <<reqvars, toolvars>>

\* `self.db_backup_loop = False`
StopEntry ==
    /\ main_pc = "stop_entry"
    /\ db_backup_loop' = FALSE
    /\ sb_before' = sb
    /\ main_pc' = "stop_wait"
    /\ UNCHANGED <<is_db_backup_running, sb, stop_args, stop_result,
                   calls_made, bk_pc, bg_pc, time_to_sleep, bg_sleeps,
                   backup_log>>
    /\ UNCHANGED <<reqvars, toolvars>>

\* `while self.is_db_backup_running:` is true: log and `time.sleep(30)`
StopWaitSleep ==
    /\ main_pc = "stop_wait"
    /\ is_db_backup_running
    /\ stop_args' = [stop_args EXCEPT !.waited = TRUE]
    /\ UNCHANGED <<db_backup_loop, is_db_backup_running, sb, sb_before,
                   main_pc, stop_result, calls_made, bk_pc, bg_pc,
                   time_to_sleep, bg_sleeps, backup_log>>
    /\ UNCHANGED <<reqvars, toolvars>>

\* the wait loop is over: `if backup: backup_db_psql(self)`, then the try
StopWaitOver ==
    /\ main_pc = "stop_wait"
    /\ ~is_db_backup_running
    /\ IF stop_args.backup
       THEN /\ main_pc' = "stop_backup"
            /\ bk_pc' = [bk_pc EXCEPT !["main"] = "begin"]
       ELSE /\ main_pc' = "stop_launch"
            /\ UNCHANGED bk_pc
    /\ UNCHANGED <<db_backup_loop, is_db_backup_running, sb, sb_before,
                   stop_args, stop_result, calls_made, bg_pc, time_to_sleep,
                   bg_sleeps, backup_log>>
    /\ UNCHANGED <<reqvars, toolvars>>

\* backup_db_psql of thread t ends with exception exc: it propagates out
\* of stop_supabase_instance (and of start_supabase_instance), or ends the
\* background thread
BackupRaises(t, exc) ==
    /\ bk_pc' = [bk_pc EXCEPT ![t] = "none"]
    /\ IF t = "main"
       THEN /\ main_pc' = "idle"
            /\ stop_result' = exc
            /\ UNCHANGED bg_pc
       ELSE /\ bg_pc' = "died"
            /\ UNCHANGED <<main_pc, stop_result>>

\* backup_db_psql(sb_manager): the flag is set, then the db_url is tested
BackupBegin(t) ==
    /\ bk_pc[t] = "begin"
    /\ is_db_backup_running' = TRUE
    /\ IF sb.db_url = None
       THEN BackupRaises(t, "AttributeError")
       ELSE /\ bk_pc' = [bk_pc EXCEPT ![t] = "check"]
            /\ UNCHANGED <<main_pc, stop_result, bg_pc>>
    /\ UNCHANGED <<db_backup_loop, sb, sb_before, stop_args, calls_made,
                   time_to_sleep, bg_sleeps, backup_log>>
    /\ UNCHANGED <<reqvars, toolvars>>

\* check_psql_installation(logger): psql is there or RuntimeError
BackupCheck(t) ==
    /\ bk_pc[t] = "check"
    /\ \E installed \in BOOLEAN :
        IF installed
        THEN /\ bk_pc' = [bk_pc EXCEPT ![t] = "dump"]
             /\ UNCHANGED <<main_pc, stop_result, bg_pc>>
        ELSE BackupRaises(t, "RuntimeError")
    /\ UNCHANGED <<db_backup_loop, is_db_backup_running, sb, sb_before,
                   stop_args, calls_made, time_to_sleep, bg_sleeps,
                   backup_log>>
    /\ UNCHANGED <<reqvars, toolvars>>

\* the three `supabase db dump` commands run; their return code is only
\* logged
BackupDump(t) ==
    /\ bk_pc[t] = "dump"
    /\ bk_pc' = [bk_pc EXCEPT ![t] = "finish"]
    /\ UNCHANGED <<db_backup_loop, is_db_backup_running, sb, sb_before,
                   main_pc, stop_args, stop_result, calls_made, bg_pc,
                   time_to_sleep, bg_sleeps, backup_log>>
    /\ UNCHANGED <<reqvars, toolvars>>

\* `sb_manager.is_db_backup_running = False` and the return to the caller:
\* the try of stop_supabase_instance, or `time_to_sleep = 60 * 60` and
\* `do_sleep` in run_backup_every_hour
BackupFinish(t) ==
    /\ bk_pc[t] = "finish"
    /\ is_db_backup_running' = FALSE
    /\ bk_pc' = [bk_pc EXCEPT ![t] = "none"]
    /\ IF t = "main"
       THEN /\ main_pc' = "stop_launch"
            /\ UNCHANGED <<bg_pc, time_to_sleep>>
       ELSE /\ bg_pc' = "sleep"
            /\ time_to_sleep' = BackupPeriod
            /\ UNCHANGED main_pc
    /\ UNCHANGED <<db_backup_loop, sb, sb_before, stop_args, stop_result,
                   calls_made, bg_sleeps, backup_log>>
    /\ UNCHANGED <<reqvars, toolvars>>

\* `subprocess.run("supabase stop", ...)` is launched
StopLaunch ==
    /\ main_pc = "stop_launch"
    /\ main_pc' = "stopping"
    /\ stop_args' = [stop_args EXCEPT !.launched = TRUE]
    /\ UNCHANGED <<db_backup_loop, is_db_backup_running, sb, sb_before,
                   stop_result, calls_made, bk_pc, bg_pc,
                   time_to_sleep, bg_sleeps, backup_log>>
    /\ UNCHANGED <<reqvars, toolvars>>

\* what stop_supabase_instance raises when `supabase stop` fails: without
\* capture_output (debug) error.stderr is None and `.decode` fails
StopFailure(debug) == IF debug THEN "AttributeError" ELSE "RuntimeError"

\* `supabase stop` ends: the fields are cleared, or the except branch runs
StopDone ==
    /\ main_pc = "stopping"
    /\ \E ok \in BOOLEAN :
        IF ok
        THEN /\ sb' = NoUrls
             /\ stop_result' = "return"
             /\ main_pc' = IF stop_args.from = "start" THEN "start_run"
                                                       ELSE "idle"
        ELSE /\ stop_result' = StopFailure(stop_args.debug)
             /\ main_pc' = "idle"
             /\ UNCHANGED sb
    /\ UNCHANGED <<db_backup_loop, is_db_backup_running, sb_before,
                   stop_args, calls_made, bk_pc, bg_pc, time_to_sleep,
                   bg_sleeps, backup_log>>
    /\ UNCHANGED <<reqvars, toolvars>>

\* the rest of start_supabase_instance: `supabase start`, and without debug
\* the endpoints, `self.db_backup_loop = True` and the background thread
StartRun ==
    /\ main_pc = "start_run"
    /\ main_pc' = "idle"
    /\ stop_result' = "none"
    /\ \E ok \in BOOLEAN :
        IF ok /\ ~stop_args.debug
        THEN /\ sb' = StartedUrls
             /\ db_backup_loop' = TRUE
             /\ bg_pc' = "while"
             /\ time_to_sleep' = FirstBackupDelay
             /\ bg_sleeps' = 0
             /\ backup_log' = << >>
        ELSE UNCHANGED <<sb, db_backup_loop, bg_pc, time_to_sleep,
                         bg_sleeps, backup_log>>
    /\ UNCHANGED <<is_db_backup_running, sb_before, stop_args, calls_made,
                   bk_pc>>
    /\ UNCHANGED <<reqvars, toolvars>>

\* a backup that comes one sleep early
BackupIsDue_early(t) == t <= SleepStep

\* `if time_to_sleep < 1:`
BackupIsDue(t) == t < 1

\* `while sb_manager.db_backup_loop:`
BgWhile ==
    /\ bg_pc = "while"
    /\ bg_pc' = IF db_backup_loop THEN "test" ELSE "ended"
    /\ UNCHANGED <<db_backup_loop, is_db_backup_running, sb, sb_before,
                   main_pc, stop_args, stop_result, calls_made, bk_pc,
                   time_to_sleep, bg_sleeps, backup_log>>
    /\ UNCHANGED <<reqvars, toolvars>>

\* `if time_to_sleep < 1:` and the call of backup_db_psql
BgTest ==
    /\ bg_pc = "test"
    /\ IF BackupIsDue(time_to_sleep)
       THEN /\ Len(backup_log) < MaxBackups
            /\ backup_log' = Append(backup_log, bg_sleeps)
            /\ bk_pc' = [bk_pc EXCEPT !["bg"] = "begin"]
            /\ bg_pc' = "backup"
       ELSE /\ bg_pc' = "sleep"
            /\ UNCHANGED <<backup_log, bk_pc>>
    /\ UNCHANGED <<db_backup_loop, is_db_backup_running, sb, sb_before,
                   main_pc, stop_args, stop_result, calls_made,
                   time_to_sleep, bg_sleeps>>
    /\ UNCHANGED <<reqvars, toolvars>>

\* `do_sleep(10)` and `time_to_sleep -= 10`
BgSleep ==
    /\ bg_pc = "sleep"
    /\ Len(backup_log) < MaxBackups
    /\ time_to_sleep' = time_to_sleep - SleepStep
    /\ bg_sleeps' = bg_sleeps + 1
    /\ bg_pc' = "while"
    /\ UNCHANGED <<db_backup_loop, is_db_backup_running, sb, sb_before,
                   main_pc, stop_args, stop_result, calls_made, bk_pc,
                   backup_log>>
    /\ UNCHANGED <<reqvars, toolvars>>

NextDb ==
    \/ NewManager
    \/ StartCall
    \/ StopCall
    \/ StopEntry
    \/ StopWaitSleep
    \/ StopWaitOver
    \/ \E t \in Threads :
          BackupBegin(t) \/ BackupCheck(t) \/ BackupDump(t)
          \/ BackupFinish(t)
    \/ StopLaunch
    \/ StopDone
    \/ StartRun
    \/ BgWhile
    \/ BgTest
    \/ BgSleep

SpecDb == Init /\ [][NextDb]_vars

DbTypeOK ==
    /\ db_backup_loop \in BOOLEAN
    /\ is_db_backup_running \in BOOLEAN
    /\ main_pc \in {"unbuilt", "idle", "stop_entry", "stop_wait",
                     "stop_backup", "stop_launch", "stopping", "start_run"}
    /\ stop_result \in {"none", "return", "RuntimeError", "AttributeError"}
    /\ calls_made \in 0..MaxManagerCalls
    /\ bk_pc \in [Threads -> {"none", "begin", "check", "dump", "finish"}]
    /\ bg_pc \in {"none", "while", "test", "backup", "sleep", "ended",
                   "died"}
    /\ time_to_sleep \in 0..BackupPeriod
    /\ Len(backup_log) <= MaxBackups

\* one call of a psql helper by the caller of the manager, with the manager
\* (once it is built) or without it
PsqlCall(f) ==
    /\ main_pc \in {"unbuilt", "idle"}
    /\ \E m \in BOOLEAN, u \in UrlArguments, l \in LoggerArguments,
          ml \in ProjectLoggers, installed \in BOOLEAN,
          returncode \in {0, 1} :
        /\ m => main_pc = "idle"
        /\ ~m => ml = None
        /\ LET b == PsqlBind(m, sb.db_url, ml, u, l)
               r == PsqlRun(b, installed, returncode)
           IN  psql' = [fn |-> f, manager |-> m,
                        mgr_db_url |-> IF m THEN sb.db_url ELSE None,
                        mgr_logger |-> ml, arg_db_url |-> u,
                        arg_logger |-> l, db_url |-> b.db_url,
                        logger |-> b.logger, launched |-> r.launched,
                        logged_by |-> r.logged_by, result |-> r.result]
    /\ UNCHANGED <<saved, vp, rl>>
    /\ UNCHANGED <<reqvars, dbvars>>

\* the caller builds, starts and stops a manager and calls the helpers in
\* between.  The background thread is in its first thirty minutes of sleep
\* all along: it writes no field the helpers read.
NextPsql ==
    \/ NewManager
    \/ StartCall
    \/ StopCall
    \/ StopEntry
    \/ StopWaitOver
    \/ BackupBegin("main")
    \/ BackupCheck("main")
    \/ BackupDump("main")
    \/ BackupFinish("main")
    \/ StopLaunch
    \/ StopDone
    \/ StartRun
    \/ \E f \in PsqlHelpers : PsqlCall(f)

SpecPsql == Init /\ [][NextPsql]_vars

\* save_file(folder, content, extionsion, file_name), called directly or
\* through ProjectSetup.save_temp_file: the content is a list, a set (its
\* items come in some order), a dict or a string
SaveFile(f) ==
    /\ \E kind \in {"list", "set", "dict", "str"}, q \in SeqsUpTo(MaxItems),
          text \in {"", "x\ny"}, e \in Extensions :
        /\ (kind = "set") => q \in Orders({q[i] : i \in 1..Len(q)})
        /\ (kind = "str") => q = << >>
        /\ (kind # "str") => text = ""
        /\ LET w == SaveFileWrites(kind, q, text, e)
           IN  saved' = [fn |-> f, kind |-> kind, items |-> q, text |-> text,
                         extionsion |-> e, written |-> w.written,
                         suffix |-> w.suffix]
    /\ UNCHANGED <<psql, vp, rl>>
    /\ UNCHANGED <<reqvars, dbvars>>

NextSave == SaveFile("save_file") \/ SaveFile("save_temp_file")

SpecSave == Init /\ [][NextSave]_vars

(* --------------------------- validate_proxies -------------------------- *)

\* validate_proxies(proxies): `working_proxies = []` and the executor
ValidateProxies ==
    /\ vp.pc = "none"
    /\ \A d \in Calls : pc[d] = "idle"
    /\ \E l \in ProxyLists :
        vp' = [NoValidation EXCEPT !.pc = "submit", !.proxies = l]
    /\ UNCHANGED <<psql, saved, rl>>
    /\ UNCHANGED <<reqvars, dbvars>>

\* `thread_executor.submit(send_dummy_request, proxy)` for the next proxy:
\* a worker thread enters get_request.  After the last proxy the for loop
\* over as_completed begins.
SubmitDummyRequest ==
    /\ vp.pc = "submit"
    /\ IF vp.submitted < Len(vp.proxies)
       THEN /\ Entry(vp.submitted + 1, DummyRequest)
            /\ vp' = [vp EXCEPT !.submitted = @ + 1]
       ELSE /\ vp' = [vp EXCEPT !.pc = "collect"]
            /\ UNCHANGED reqvars
    /\ UNCHANGED <<psql, saved, rl>>
    /\ UNCHANGED dbvars

\* what send_dummy_request hands to its future once get_request of call c
\* has ended: the exception, or `if response: return proxy`, else None
FutureResult(c) ==
    IF result[c].kind = "raise" THEN "raise"
    ELSE IF Falsy(result[c].value) THEN None
    ELSE vp.proxies[c]

\* one turn of `for future in concurrent.futures.as_completed(futures)`:
\* a finished future not yet seen, `future.result()`, `if result:` and the
\* append.  An exception of the worker is raised again by future.result()
\* and leaves validate_proxies.
CollectFuture ==
    /\ vp.pc = "collect"
    /\ \E c \in (1..Len(vp.proxies)) \ vp.collected :
        /\ pc[c] = "done"
        /\ IF FutureResult(c) = "raise"
           THEN vp' = [vp EXCEPT !.pc = "done", !.result = "raise",
                                 !.collected = @ \cup {c}]
           ELSE vp' = [vp EXCEPT
                    !.collected = @ \cup {c},
                    !.working_proxies =
                        IF FutureResult(c) = None THEN @
                        ELSE Append(@, FutureResult(c))]
    /\ UNCHANGED <<psql, saved, rl>>
    /\ UNCHANGED <<reqvars, dbvars>>

\* every future has been seen: `return working_proxies`
ReturnWorking ==
    /\ vp.pc = "collect"
    /\ vp.collected = 1..Len(vp.proxies)
    /\ vp' = [vp EXCEPT !.pc = "done", !.result = "return"]
    /\ UNCHANGED <<psql, saved, rl>>
    /\ UNCHANGED <<reqvars, dbvars>>

NextProxies ==
    \/ ValidateProxies
    \/ SubmitDummyRequest
    \/ Step(1)
    \/ Step(2)
    \/ CollectFuture
    \/ ReturnWorking

SpecProxies == Init /\ [][NextProxies]_vars

(* ---------------------------- check_ratelimit -------------------------- *)

\* check_ratelimit(url, check, headers, data, is_get): the lock, the
\* counters and the stopwatch, then the call of send_request by the calling
\* thread (check) or the burst
CheckRatelimit ==
    /\ rl.pc = "none"
    /\ \E ck \in BOOLEAN, g \in BOOLEAN, h \in {NoHeaders, CallerHeaders} :
        rl' = [NoRatelimit EXCEPT
                 !.pc = IF ck THEN "check" ELSE "submit",
                 !.check = ck, !.is_get = g, !.headers = h,
                 !.w[0] = IF ck THEN [pc |-> "gate", status |-> NoStatus]
                                ELSE NoSender]
    /\ UNCHANGED <<psql, saved, vp>>
    /\ UNCHANGED <<reqvars, dbvars>>

\* send_request, first `with count_lock:` block: `if
\* burst_data["requests_till_429"] != 0: return None`
SendRequestGate(i) ==
    /\ rl.w[i].pc = "gate"
    /\ rl' = [rl EXCEPT
                 !.w[i].pc = IF rl.burst_data.requests_till_429 # 0
                             THEN "done" ELSE "request"]
    /\ UNCHANGED <<psql, saved, vp>>
    /\ UNCHANGED <<reqvars, dbvars>>

\* a send_request that goes on to the counters whatever `check`
ReturnsStatus_never(check) == FALSE

\* `if check: return response.status_code`
ReturnsStatus(check) == check

\* send_request, the request: requests.get or requests.post raises, or
\* answers with a status
SendRequestIssue(i) ==
    /\ rl.w[i].pc = "request"
    /\ \E o \in BurstStatuses \cup {NoStatus} :
        rl' = [rl EXCEPT
                 !.requests = @ + 1,
                 !.by = IF rl.is_get THEN "requests.get"
                                     ELSE "requests.post",
                 !.w[i] = IF o = NoStatus
                          THEN [pc |-> "raised", status |-> NoStatus]
                          ELSE IF ReturnsStatus(rl.check)
                          THEN [pc |-> "returned", status |-> o]
                          ELSE [pc |-> "count", status |-> o]]
    /\ UNCHANGED <<psql, saved, vp>>
    /\ UNCHANGED <<reqvars, dbvars>>

\* send_request, second `with count_lock:` block: the first answer that is
\* not a 200 fixes requests_till_429 and time_till_429, later requests are
\* not counted
SendRequestCount(i) ==
    /\ rl.w[i].pc = "count"
    /\ \E lap \in Laps :
        LET b == rl.burst_data
            hit == rl.w[i].status # 200 /\ b.requests_till_429 = 0
            b1 == IF hit
                  THEN [b EXCEPT !.requests_till_429 = b.total_requests,
                                 !.time_till_429 = lap]
                  ELSE b
            b2 == IF b1.requests_till_429 # 0
                  THEN b1
                  ELSE [b1 EXCEPT !.total_requests = @ + 1]
        IN  /\ ~hit => lap = 1
            /\ rl' = [rl EXCEPT !.burst_data = b2, !.w[i] =
                                    [pc |-> "done", status |-> NoStatus]]
    /\ UNCHANGED <<psql, saved, vp>>
    /\ UNCHANGED <<reqvars, dbvars>>

\* check_ratelimit with check: send_request has returned to the calling
\* thread, `return f"We got {status_code} status for {url}. ..."`; an
\* exception of the request leaves check_ratelimit
CheckReturn ==
    /\ rl.pc = "check"
    /\ rl.w[0].pc \in {"returned", "raised", "done"}
    /\ rl' = [rl EXCEPT
                 !.pc = "done",
                 !.result = IF rl.w[0].pc = "raised"
                            THEN [kind |-> "raise", status |-> NoStatus]
                            ELSE [kind |-> "We got status",
                                  status |-> rl.w[0].status]]
    /\ UNCHANGED <<psql, saved, vp>>
    /\ UNCHANGED <<reqvars, dbvars>>

\* the burst: `thread_executor.submit(send_request, ..., check=False)` and
\* `time.sleep(0.05)`; each request followed has a thread of the pool
\* (max_workers=100).  After the last one the futures are waited for.
BurstSubmit ==
    /\ rl.pc = "submit"
    /\ IF rl.threads < MaxBurst
       THEN rl' = [rl EXCEPT
                     !.threads = @ + 1,
                     !.w[rl.threads + 1] =
                         [pc |-> "gate", status |-> NoStatus]]
       ELSE rl' = [rl EXCEPT !.pc = "wait"]
    /\ UNCHANGED <<psql, saved, vp>>
    /\ UNCHANGED <<reqvars, dbvars>>

\* every future is done, its exception dropped: the message is chosen from
\* the counters
BurstReturn ==
    /\ rl.pc = "wait"
    /\ \A i \in 1..MaxBurst : rl.w[i].pc \in {"done", "raised"}
    /\ rl' = [rl EXCEPT
                 !.pc = "done",
                 !.result =
                    [kind |-> IF rl.burst_data.requests_till_429 = 0
                              THEN "never hit the ratelimit"
                              ELSE IF rl.burst_data.time_till_429 # 0
                              THEN "requests before the rate limit"
                              ELSE "Requests, time",
                     status |-> NoStatus]]
    /\ UNCHANGED <<psql, saved, vp>>
    /\ UNCHANGED <<reqvars, dbvars>>

NextRatelimit ==
    \/ CheckRatelimit
    \/ \E i \in Senders :
          SendRequestGate(i) \/ SendRequestIssue(i) \/ SendRequestCount(i)
    \/ CheckReturn
    \/ BurstSubmit
    \/ BurstReturn

SpecRatelimit == Init /\ [][NextRatelimit]_vars

(* --------------------------- properties -------------------------------- *)

Started(c) == pc[c] # "idle"

Done(c) == pc[c] = "done"

\* the answers call c has received so far
Seen(c) == 1..attempts[c]

Answered(i) == script[i] \in Responses

NumRaised(c) == Cardinality({i \in Seen(c) : script[i] = TransportException})

\* the retryable statuses as the specification lists them
RetryableStatus(st) == st \in {420, 429} \/ st >= 500

NumRetryable(c) ==
    Cardinality({i \in Seen(c) :
                    Answered(i) /\ RetryableStatus(script[i].status)})

AllRetryable(c) ==
    \A i \in Seen(c) : Answered(i) /\ RetryableStatus(script[i].status)

\* C1: in get_request, async_get_request and async_post_request the retry
\* counter stays within 0..5 and at most 5 network attempts are made in one
\* call, whatever the transport does and whatever silence_exceptions is.
C1_RetriesWithinFive ==
    \A c \in Calls :
        cfg[c].fn \in {"get_request", "async_get_request",
                       "async_post_request"}
        => /\ retries[c] \in 0..5
           /\ attempts[c] <= 5

C1_Witness ==
    /\ cfg[1].fn = "async_post_request"
    /\ Done(1)
    /\ retries[1] = 5
    /\ attempts[1] = 5
    /\ NumRaised(1) = 2

\* C2: post_request makes at most retry_count POST attempts in one call; a
\* transport that always answers 500 is called exactly retry_count times.
C2_PostAttemptsWithinRetryCount ==
    \A c \in Calls :
        cfg[c].fn = "post_request"
        => /\ attempts[c] <= cfg[c].retry_count
           /\ (Done(c) /\ (\A i \in Seen(c) : script[i].status = 500))
                => attempts[c] = cfg[c].retry_count

\* C3: in get_request and post_request an attempt that returns a status
\* that is not 200, 420, 429 or >= 500 is the last one of the call: no
\* attempt and no sleep follows it, and the call raises RuntimeError when
\* silence_exceptions is false and returns None when it is true.
C3_FatalStatusEndsCall ==
    \A c \in Calls :
        cfg[c].fn \in {"get_request", "post_request"}
        => \A i \in Seen(c) :
              (Answered(i) /\ script[i].status \notin {200, 420, 429}
                           /\ script[i].status < 500)
              => /\ i = attempts[c]
                 /\ pc[c] \in {"exit", "done"}
                 /\ sleeps[c] = Cardinality({j \in 1..(i - 1) :
                                    script[j].status \in {420, 429}
                                    \/ script[j].status >= 500})
                 /\ Done(c)
                    => result[c] =
                         IF cfg[c].silence
                         THEN Returned(None)
                         ELSE Raised("RuntimeError", script[i].status, "fatal")

C3_Witness ==
    /\ cfg[1].fn = "post_request"
    /\ ~cfg[1].silence
    /\ Done(1)
    /\ attempts[1] = 2
    /\ sleeps[1] = 1
    /\ script[2].status = 404
    /\ result[1].value = "RuntimeError"

\* C4: when every attempt of get_request is answered by a retryable status,
\* exactly 5 attempts are made, and then the call raises a RuntimeError that
\* carries the last status when silence_exceptions is false and returns None
\* when it is true.
C4_AlwaysRetryableExhausts ==
    \A c \in Calls :
        (cfg[c].fn = "get_request" /\ Done(c) /\ AllRetryable(c))
        => /\ attempts[c] = 5
           /\ result[c] =
                IF cfg[c].silence
                THEN Returned(None)
                ELSE Raised("RuntimeError", script[5].status, "exhausted")

C4_Witness ==
    /\ cfg[1].fn = "get_request"
    /\ ~cfg[1].silence
    /\ Done(1)
    /\ AllRetryable(1)
    /\ script[1].status = 500
    /\ script[5].status = 429
    /\ result[1] = Raised("RuntimeError", 429, "exhausted")

\* C5: with silence_exceptions false, a call of get_request or post_request
\* that ends with an error ends with a RuntimeError, also when every attempt
\* raised a transport exception and no response was ever received.
C5_OnlyRuntimeErrorEscapes ==
    \A c \in Calls :
        (cfg[c].fn \in {"get_request", "post_request"}
            /\ ~cfg[c].silence /\ result[c].kind = "raise")
        => result[c].value = "RuntimeError"

\* C6: when a call of get_request or post_request exhausts its budget on
\* retryable statuses, N attempts are accompanied by N-1 sleeps: none
\* follows the final attempt.
C6_NoSleepAfterFinalAttempt ==
    \A c \in Calls :
        (cfg[c].fn \in {"get_request", "post_request"}
            /\ Done(c) /\ attempts[c] >= 1 /\ AllRetryable(c))
        => sleeps[c] = attempts[c] - 1

\* C7: with silence_exceptions true, get_request, post_request and
\* async_post_request never raise: the call returns the body of a 200
\* response, or None on a fatal status and on either kind of exhaustion.
C7_SilencedNeverRaises ==
    \A c \in Calls :
        (cfg[c].fn \in {"get_request", "post_request", "async_post_request"}
            /\ cfg[c].silence /\ Done(c))
        => result[c] =
             IF attempts[c] >= 1 /\ script[attempts[c]].status = 200
             THEN Returned(script[attempts[c]].text)
             ELSE Returned(None)

C7_Witness ==
    /\ cfg[1].fn = "async_post_request"
    /\ cfg[1].silence
    /\ Done(1)
    /\ attempts[1] = 5
    /\ NumRaised(1) = 5
    /\ result[1] = Returned(None)

\* C8: a transport exception at an attempt of get_request consumes exactly
\* one attempt and no sleep, and the next attempt follows at once; after
\* exceptions at attempts 1 and 2 and a 200 at attempt 3 the call returns the
\* body of attempt 3 after exactly 3 attempts and 0 sleeps.
C8_ExceptionRetriesWithoutSleep ==
    \A c \in Calls :
        (cfg[c].fn = "get_request" /\ Started(c))
        => /\ retries[c] = NumRaised(c) + sleeps[c]
           /\ sleeps[c] =
                NumRetryable(c) - (IF pc[c] = "sleep" THEN 1 ELSE 0)
           /\ (attempts[c] >= 1 /\ script[attempts[c]] = TransportException
                  /\ retries[c] < 5)
                => pc[c] = "loop"
           /\ (Done(c) /\ attempts[c] = 3
                  /\ script[1] = TransportException
                  /\ script[2] = TransportException
                  /\ Answered(3) /\ script[3].status = 200)
                => /\ result[c] = Returned(script[3].text)
                   /\ sleeps[c] = 0

C8_Witness ==
    /\ cfg[1].fn = "get_request"
    /\ Done(1)
    /\ script = <<TransportException, TransportException,
                  [status |-> 200, text |-> "b"]>>
    /\ result[1] = Returned("b")
    /\ sleeps[1] = 0

\* C9: get_request called with logger=None ends with the same result, the
\* same number of attempts and the same number of sleeps as when called
\* with a logger, against the same transport; for asaniczka.get_request and
\* for asaniczka.main.get_request.
C9_LoggerDoesNotSteer ==
    (Done(1) /\ Done(2))
    => /\ result[1] = result[2]
       /\ attempts[1] = attempts[2]
       /\ sleeps[1] = sleeps[2]

\* C10: if the first k-1 attempts (k <= 5) of get_request return retryable
\* statuses and attempt k returns 200, the call returns the body of attempt
\* k after exactly k attempts and k-1 sleeps; a 200 at attempt 5 is a
\* success, not an exhaustion.
C10_SuccessAfterRetryable ==
    \A c \in Calls :
        \A k \in 1..5 :
            (cfg[c].fn = "get_request" /\ Done(c)
                /\ k \in Seen(c)
                /\ Answered(k) /\ script[k].status = 200
                /\ \A i \in 1..(k - 1) :
                      Answered(i) /\ script[i].status \in {420, 429, 500})
            => /\ result[c] = Returned(script[k].text)
               /\ attempts[c] = k
               /\ sleeps[c] = k - 1

C10_Witness ==
    /\ cfg[1].fn = "get_request"
    /\ ~cfg[1].silence
    /\ Done(1)
    /\ attempts[1] = 5
    /\ sleeps[1] = 4
    /\ \A i \in 1..4 : script[i].status \in {420, 429, 500}
    /\ script[5] = [status |-> 200, text |-> "b"]
    /\ result[1] = Returned("b")

\* C11: when the first attempt returns 200, get_request, post_request and
\* async_post_request return the body of that response unchanged after
\* exactly one attempt and zero sleeps, with or without proxy, session,
\* silence_exceptions and logger.
C11_FirstAttemptOk ==
    \A c \in Calls :
        (cfg[c].fn \in {"get_request", "post_request", "async_post_request"}
            /\ attempts[c] >= 1
            /\ Answered(1) /\ script[1].status = 200)
        => /\ attempts[c] = 1
           /\ sleeps[c] = 0
           /\ retries[c] = 0
           /\ pc[c] \in {"exit", "done"}
           /\ Done(c) => result[c] = Returned(script[1].text)

C11_Witness ==
    /\ cfg[1].fn = "get_request"
    /\ cfg[1].proxy /\ cfg[1].session /\ cfg[1].logger /\ ~cfg[1].silence
    /\ Done(1)
    /\ script = <<[status |-> 200, text |-> "b"]>>
    /\ result[1] = Returned("b")
    /\ sleeps[1] = 0

\* C17: in main.get_request and main.post_request every attempt of a call
\* is issued with the headers of the caller when the caller supplied a
\* non-empty mapping and with the default User-Agent header otherwise; the
\* mapping is the same at every attempt and the mapping of the caller is
\* not modified.
C17_HeadersOfEveryAttempt ==
    \A c \in Calls :
        (cfg[c].fn \in {"get_request", "post_request"} /\ attempts[c] >= 1)
        => /\ sent[c].headers =
                IF cfg[c].headers = CallerHeaders
                THEN CallerHeaders
                ELSE DefaultHeaders
           /\ caller_headers[c] = cfg[c].headers

C17_Witness ==
    /\ cfg[1].fn = "post_request"
    /\ cfg[1].headers = CallerHeaders
    /\ attempts[1] = 3
    /\ NumRaised(1) = 1
    /\ sent[1].headers = CallerHeaders
    /\ caller_headers[1] = CallerHeaders

\* C12: against the same transport and with the same silence_exceptions and
\* logger, async_get_request ends with the same result (body, None or the
\* same error kind) after the same number of attempts and of sleeps as
\* get_request.
C12_AsyncGetSameAsSync ==
    (Done(1) /\ Done(2))
    => /\ result[2].kind = result[1].kind
       /\ result[2].value = result[1].value
       /\ attempts[2] = attempts[1]
       /\ sleeps[2] = sleeps[1]

\* the sleeps call c owes for the retryable answers it has received: one
\* for each, the one of the last answer being due while pc is "sleep"
SleepsDue(c) == NumRetryable(c) - (IF pc[c] = "sleep" THEN 1 ELSE 0)

\* C13: in async_post_request every attempt that returns a retryable status
\* is followed by a suspension of retry_sleep_time that completes before the
\* next attempt is issued, as the blocking sleep does in post_request.
C13_AsyncPostSleepsBeforeRetry ==
    \A c \in Calls :
        cfg[c].fn \in {"post_request", "async_post_request"}
        => sleeps[c] = SleepsDue(c)

\* what a call that treats its answers by class shows: every retryable
\* answer has cost one retry and no other answer has, and an answer of
\* another class is the last one of the call, a success when it is a 200
\* and a failure without body otherwise
ClassifiesAnswers(c) ==
    /\ retries[c] = NumRaised(c) + SleepsDue(c)
    /\ \A i \in Seen(c) :
          (Answered(i) /\ ~RetryableStatus(script[i].status))
          => /\ i = attempts[c]
             /\ pc[c] \in {"exit", "done"}
             /\ Done(c)
                => IF script[i].status = 200
                   THEN result[c] = Returned(script[i].text)
                   ELSE result[c].kind = "raise"
                        \/ result[c] = Returned(None)

\* C14: in all four request variants every status falls into exactly one
\* class: 200 is success; 420, 429 and any status >= 500 are retried; every
\* other status is fatal and is never retried.
C14_OneClassPerStatus ==
    \A c \in Calls :
        (cfg[c].fn \in {"get_request", "async_get_request", "post_request",
                        "async_post_request"} /\ Started(c))
        => ClassifiesAnswers(c)

\* C15: calls share no state: in every interleaving of two calls, made at
\* the same time or one after the other against the same deterministic
\* transport, each call ends with the result, the number of attempts and
\* the number of sleeps it has when it runs alone.
C15_CallsShareNoState ==
    \A c \in Calls :
        Done(c)
        => [result |-> result[c], attempts |-> attempts[c],
            sleeps |-> sleeps[c]]
           = RunAlone(cfg[c], script, 0, 0, 0, Unbound)

C15_Witness ==
    /\ cfg[1].fn = "async_post_request"
    /\ cfg[2].fn = "get_request"
    /\ Done(1)
    /\ pc[2] = "sleep"
    /\ attempts[1] = 4
    /\ attempts[2] = 2
    /\ sleeps[2] = 1
    /\ result[1].kind = "return"

\* the three ways a call ends: on a 200 whose body it returns, on an
\* unexpected status, or with its attempts spent on failures
EndsInSuccess(c) ==
    /\ attempts[c] >= 1 /\ Answered(attempts[c])
    /\ script[attempts[c]].status = 200
    /\ result[c] = Returned(script[attempts[c]].text)

EndsInFatal(c) ==
    /\ attempts[c] >= 1 /\ Answered(attempts[c])
    /\ script[attempts[c]].status # 200
    /\ ~RetryableStatus(script[attempts[c]].status)

EndsInExhausted(c) ==
    /\ ~LoopContinues(c)
    /\ \A i \in Seen(c) :
          script[i] = TransportException
          \/ RetryableStatus(script[i].status)

EndsInOneOutcome(c) ==
    \/ EndsInSuccess(c) /\ ~EndsInFatal(c) /\ ~EndsInExhausted(c)
    \/ ~EndsInSuccess(c) /\ EndsInFatal(c) /\ ~EndsInExhausted(c)
    \/ ~EndsInSuccess(c) /\ ~EndsInFatal(c) /\ EndsInExhausted(c)

\* C16: every call to a request helper terminates, provided each transport
\* call and each sleep returns; it ends in exactly one of success, fatal
\* or exhausted, and once it has ended no attempt or sleep is performed.
C16_CallTerminatesInOneOutcome ==
    /\ [](Started(1) => <>Done(1))
    /\ [](Done(1) => EndsInOneOutcome(1))
    /\ [][Done(1) => (attempts' = attempts /\ sleeps' = sleeps)]_vars

\* a backup_db_psql call of thread t is in progress
BackupInProgress(t) == bk_pc[t] # "none"

\* C18: stop_supabase_instance waits for a running backup to finish: in
\* every interleaving with the background thread, `supabase stop` never
\* runs while a backup_db_psql call of the background thread is in progress.
C18_StopWaitsForBackup ==
    ~(main_pc = "stopping" /\ BackupInProgress("bg"))

C20_StopClearsOrKeeps ==
    /\ stop_result = "return"
        => /\ ~db_backup_loop
           /\ sb.api_url = None /\ sb.db_url = None
           /\ sb.studio_url = None /\ sb.anon_key = None
    /\ (stop_args.launched /\ stop_result \notin {"none", "return"})
        => /\ stop_result = "RuntimeError"
           /\ sb = sb_before

\* C21: a psql helper called when no database URL is available (no manager
\* and no db_url argument, or a manager whose sb_db_url is None) raises
\* AttributeError and launches no subprocess; with a manager, the db_url and
\* the logger the helper works with are those of the manager, whatever the
\* arguments.
C21_NoUrlRaisesBeforeSubprocess ==
    psql.fn # "none" =>
        /\ psql.manager =>
              /\ psql.db_url = psql.mgr_db_url
              /\ psql.logger = psql.mgr_logger
        /\ psql.logged_by \in {None, psql.logger}
        /\ (IF psql.manager THEN psql.mgr_db_url = None
                            ELSE psql.arg_db_url = None)
              => /\ psql.result = "AttributeError"
                 /\ psql.launched = 0

\* a helper called with the manager after its only stop_supabase_instance
\* returned, and with a db_url and a logger of its own
C21_Witness ==
    /\ calls_made = 1 /\ stop_args.from = "caller"
    /\ sb_before.db_url = "given DB URL"
    /\ stop_result = "return" /\ sb.db_url = None
    /\ psql.fn = "run_db_command_psql" /\ psql.manager
    /\ psql.mgr_db_url = None
    /\ psql.arg_db_url = "argument DB URL"
    /\ psql.arg_logger = "argument logger"
    /\ psql.mgr_logger = "project logger"
    /\ psql.logged_by = "project logger"
    /\ psql.result = "AttributeError" /\ psql.launched = 0

\* C22: save_file writes a list as its JSON encoding when the extension is
\* "json" or ".json", and writes a list or a set one item per line with any
\* other extension.
C22_JsonListWrittenAsJson ==
    /\ (saved.kind = "list" /\ saved.extionsion \in {"json", ".json"})
          => saved.written = JsonDumps(saved.items)
    /\ (saved.kind \in {"list", "set"}
            /\ saved.extionsion \notin {"json", ".json"})
          => saved.written = Join(saved.items, "\n", TRUE)

\* the dummy GET of the proxy at position i returned a non-empty body
Live(i) == result[i].kind = "return" /\ result[i].value \notin {None, ""}

\* the number of times x occurs in q
Occurrences(x, q) == Cardinality({i \in 1..Len(q) : q[i] = x})

\* C23: validate_proxies never raises, and what it returns holds exactly the
\* proxies of its input whose dummy GET returned a non-empty body, each as
\* often as the input holds it with such a GET, whatever the transport does
\* for each proxy.
C23_ReturnsLiveProxies ==
    /\ vp.result # "raise"
    /\ vp.pc = "done" =>
          /\ vp.result = "return"
          /\ \A x \in ProxyIds :
                Occurrences(x, vp.working_proxies)
                  = Cardinality({i \in 1..Len(vp.proxies) :
                                    vp.proxies[i] = x /\ Live(i)})

\* two proxies: every attempt through the first raises, the second answers
\* with a body after a retryable status; the second proxy alone is returned
C23_Witness ==
    /\ vp.pc = "done" /\ vp.proxies = <<"p", "q">>
    /\ attempts[1] = MaxRetries /\ response[1] = Unbound
    /\ result[1] = Returned(None)
    /\ attempts[2] = 2 /\ sleeps[2] = 1 /\ result[2] = Returned("a")
    /\ vp.working_proxies = <<"q">>

C25_FlagOnlyDuringBackup ==
    is_db_backup_running => \E t \in Threads : BackupInProgress(t)

\* C26: at most one backup_db_psql execution of the manager is in progress
\* at any time, in every interleaving of the background loop with
\* stop_supabase_instance(backup=True).
C26_OneBackupAtATime ==
    ~(BackupInProgress("main") /\ BackupInProgress("bg"))

\* C27: when a session is supplied to get_request, every attempt of the
\* call is issued through that session, with or without a proxy.
C27_SessionCarriesEveryAttempt ==
    (cfg[1].fn = "get_request" /\ cfg[1].session /\ attempts[1] > 0)
        => sent[1].by = "session.get"

====
